---- MODULE Spec2Model ----
(***************************************************************************)
(* A model of the StateEngine library (src/_stateengine.py): the handler   *)
(* registration tables, the dispatch algorithm _execute_handler, the local *)
(* state store and the managed execution of IntegratedStateEngine.         *)
(*                                                                         *)
(* Python values are modelled by tokens; TypeOf gives the Python type of a *)
(* token and Canon the class of a token under Python's hash/== (1, 1.0 and *)
(* True are one dict key).                                                 *)
(***************************************************************************)
EXTENDS Integers, Sequences, FiniteSets, TLC

\* ------------------------------------------------------------------ bounds
NumHandlers == 2

\* The depth of execute calls in progress when handlers call execute.
MaxDepth == 2

\* ------------------------------------------------------------ Python values
None == "None"

\* The Python objects used as state arguments and handler return values:
\* None, 'a', 1, 1.0, True, the tuple () and the list [].
Values == {"None", "a", "1", "1.0", "True", "()", "[]"}

\* The strings '1' and '1.0' are written "'1'" and "'1.0'".
\* Those of them that are states: 'a', 1 and 1.0.
States == {"a", "1", "1.0"}

TypeOf(v) ==
    CASE v = "None" -> "NoneType"
      [] v = "a"    -> "str"
      [] v = "u"    -> "str"
      [] v = "'1'"  -> "str"
      [] v = "'1.0'" -> "str"
      [] v = "1"    -> "int"
      [] v = "1.0"  -> "float"
      [] v = "True" -> "bool"
      [] v = "()"   -> "tuple"
      [] v = "[]"   -> "list"

\* isinstance(v, types): bool is a subclass of int.
IsInstance(v, types) ==
    \/ TypeOf(v) \in types
    \/ TypeOf(v) = "bool" /\ "int" \in types

\* hash(v) is defined for everything but the list.
Hashable(v) == TypeOf(v) # "list"

\* The representative of v under Python's == and hash: 1 == 1.0 == True.
Canon(v) == IF v \in {"1", "1.0", "True"} THEN "1" ELSE v

\* x == y in Python.
PyEq(x, y) == Canon(x) = Canon(y)

\* ------------------------------------------------------------- Python dicts
\* A dict is a function on the Canon classes of its keys.
EmptyDict == [k \in {} |-> None]

DictHas(d, k) == Canon(k) \in DOMAIN d

DictGet(d, k) == d[Canon(k)]

DictSet(d, k, v) ==
    [x \in DOMAIN d \cup {Canon(k)} |-> IF x = Canon(k) THEN v ELSE d[x]]

DictDel(d, k) == [x \in DOMAIN d \ {Canon(k)} |-> d[x]]

\* --------------------------------------------------------------- the engine
\* Handler functions are 1..NumHandlers; NoHandler is the None of
\* _current_handler.
NoHandler == 0
Handlers == 1..NumHandlers

\* The inputs passed to execute: two payloads, opaque to the engine.
Inputs == {1, 2}

\* The uids used with IntegratedStateEngine.execute: 'u' and 1.
Uids == {"u", "1"}

\* The uid arguments of other types: True and the list [].
InvalidUids == {"True", "[]"}

\* What a handler call does: return a state, or raise.
HandlerReturns == {"None", "a", "1"}
Behaviours ==
    [raises : {FALSE}, value : HandlerReturns] \cup {[raises |-> TRUE, value |-> None]}

\* Handlers that may also return a value that is no state: the list [].
UncheckedBehaviours == Behaviours \cup {[raises |-> FALSE, value |-> "[]"]}

VARIABLES
    engine,                 \* the class of the instance
    state_handlers,         \* self._state_handlers
    default_state_handler,  \* self._default_state_handler
    current_state,          \* self._current_state
    current_handler,        \* self._current_handler
    store,                  \* self._store (the local dict, or the keys held by Redis)
    redis,                  \* self._redis
    threads,                \* the calls in progress: one per thread, or the stack of nested calls
    returned,               \* history: per uid, the state last persisted by a completed execute
    last                    \* history: the last call, the state it started from, its outcome

vars == <<engine, state_handlers, default_state_handler, current_state,
          current_handler, store, redis, threads, returned, last>>

\* No read of current_state, of current_handler, was made.
NotSeenState == [raised |-> "", value |-> None]
NotSeenHandler == [raised |-> "", value |-> NoHandler]

\* The fields of the instance, as a call finds them.
Snapshot ==
    [state_handlers |-> state_handlers,
     default_state_handler |-> default_state_handler,
     current_state |-> current_state,
     current_handler |-> current_handler,
     store |-> store,
     returned |-> returned]

NoCall ==
    [op |-> "init", state |-> None, default |-> FALSE, func |-> NoHandler,
     uid |-> None, input |-> 0, start |-> None, via |-> "", calls |-> <<>>,
     raised |-> "", new_state |-> None, result |-> None, before |-> Snapshot,
     seen_state |-> NotSeenState, seen_handler |-> NotSeenHandler,
     fault |-> "none"]

\* The record of an execute call: its arguments, the state read from the
\* store, the outcome out of _execute_handler, the exception that reached
\* the caller and the value returned. fault is the Redis command that met a
\* connection failure, for calls on the Redis backend.
ExecCall(op, state, uid, input, start, out, raised, result) ==
    [op |-> op, state |-> state, default |-> FALSE, func |-> NoHandler,
     uid |-> uid, input |-> input, start |-> start, via |-> out.via,
     calls |-> out.calls, raised |-> raised, new_state |-> out.new_state,
     result |-> result, before |-> Snapshot,
     seen_state |-> out.seen_state, seen_handler |-> out.seen_handler,
     fault |-> "none"]

Init ==
    /\ engine \in {"StateEngine", "IntegratedStateEngine"}
    /\ state_handlers = EmptyDict
    /\ default_state_handler = EmptyDict
    /\ current_state = None
    /\ current_handler = NoHandler
    /\ store = EmptyDict
    /\ redis = FALSE
    /\ threads = <<>>
    /\ returned = [u \in {Canon(x) : x \in Uids} |-> None]
    /\ last = NoCall

\* ------------------------------------------------------------ registration
\* The type test without its bool clause: True passes as an int.
ValidStateTypeNoBoolTest(state) == IsInstance(state, {"str", "int", "float"})

\* The type test of state_to_handler_mapper.
ValidStateType(state) ==
    ~ (~ IsInstance(state, {"str", "int", "float"}) \/ IsInstance(state, {"bool"}))

\* Registration that rebinds a bound state instead of raising StateHandlerClash.
RegisterOutcomeOverwrite(state, default, func) ==
    IF ~ ValidStateType(state)
    THEN [raised |-> "InvalidStateType",
          handlers |-> state_handlers, dflt |-> default_state_handler]
    ELSE IF default
    THEN IF DOMAIN default_state_handler # {}
         THEN [raised |-> "DefaultStateHandlerClash",
               handlers |-> state_handlers, dflt |-> default_state_handler]
         ELSE [raised |-> "",
               handlers |-> state_handlers,
               dflt |-> DictSet(default_state_handler, state,
                                [key |-> state, func |-> func])]
    ELSE [raised |-> "",
          handlers |-> DictSet(state_handlers, state, func),
          dflt |-> default_state_handler]

\* Registration that accepts a default handler when one is already set.
RegisterOutcomeSecondDefault(state, default, func) ==
    IF ~ ValidStateType(state)
    THEN [raised |-> "InvalidStateType",
          handlers |-> state_handlers, dflt |-> default_state_handler]
    ELSE IF default
    THEN [raised |-> "",
          handlers |-> state_handlers,
          dflt |-> DictSet(default_state_handler, state,
                           [key |-> state, func |-> func])]
    ELSE IF DictHas(state_handlers, state)
         THEN [raised |-> "StateHandlerClash",
               handlers |-> state_handlers, dflt |-> default_state_handler]
         ELSE [raised |-> "",
               handlers |-> DictSet(state_handlers, state, func),
               dflt |-> default_state_handler]

\* state_to_handler_mapper(func) of _register_handler(state, default): the
\* exception raised ("" for none) and the two tables afterwards.
RegisterOutcome(state, default, func) ==
    IF ~ ValidStateType(state)
    THEN [raised |-> "InvalidStateType",
          handlers |-> state_handlers, dflt |-> default_state_handler]
    ELSE IF default
    THEN IF DOMAIN default_state_handler # {}
         THEN [raised |-> "DefaultStateHandlerClash",
               handlers |-> state_handlers, dflt |-> default_state_handler]
         ELSE [raised |-> "",
               handlers |-> state_handlers,
               dflt |-> DictSet(default_state_handler, state,
                                [key |-> state, func |-> func])]
    ELSE IF DictHas(state_handlers, state)
         THEN [raised |-> "StateHandlerClash",
               handlers |-> state_handlers, dflt |-> default_state_handler]
         ELSE [raised |-> "",
               handlers |-> DictSet(state_handlers, state, func),
               dflt |-> default_state_handler]

\* engine.state_handler(state, default)(func)
state_handler(state, default, func) ==
    \E out \in {RegisterOutcome(state, default, func)} :
    /\ state_handlers' = out.handlers
    /\ default_state_handler' = out.dflt
    /\ last' = [NoCall EXCEPT !.op = "state_handler", !.state = state,
                              !.default = default, !.func = func,
                              !.raised = out.raised]
    /\ UNCHANGED <<engine, current_state, current_handler, store, returned>>
    /\ UNCHANGED <<redis, threads>>

\* ---------------------------------------------------------------- dispatch
\* list(self._default_state_handler.keys())[0]
DefaultKey == (CHOOSE e \in {default_state_handler[k] : k \in DOMAIN default_state_handler} : TRUE).key

\* The property _get_current_state read when the context fields are cs and ch:
\* the exception raised ("" for none) and the value returned.
GetCurrentState(cs, ch) ==
    IF ch = NoHandler
    THEN [raised |-> "OutsideHandlerContext", value |-> None]
    ELSE [raised |-> "", value |-> cs]

\* The property _get_current_handler read when the context field is ch.
GetCurrentHandler(ch) ==
    IF ch = NoHandler
    THEN [raised |-> "OutsideHandlerContext", value |-> NoHandler]
    ELSE [raised |-> "", value |-> ch]

\* _execute_handler(current_state, input) with the handler behaving as beh:
\* the exception raised ("" for none), the handler calls made, the value
\* returned and the context fields afterwards.
Failed(exc) ==
    [raised |-> exc, via |-> "", calls |-> <<>>, new_state |-> None,
     cur_state |-> current_state, cur_handler |-> current_handler,
     seen_state |-> NotSeenState, seen_handler |-> NotSeenHandler]

\* The call self._current_handler(input) and what follows it; via names the
\* dict the handler was taken from, seen_state and seen_handler are what the
\* properties current_state and current_handler give the running handler.
Invoked(resolved, handler, via, input, beh) ==
    IF beh.raises
    THEN [raised |-> "HandlerError", via |-> via,
          calls |-> <<[handler |-> handler, input |-> input, ret |-> None]>>,
          new_state |-> None, cur_state |-> resolved, cur_handler |-> handler,
          seen_state |-> GetCurrentState(resolved, handler),
          seen_handler |-> GetCurrentHandler(handler)]
    ELSE [raised |-> "", via |-> via,
          calls |-> <<[handler |-> handler, input |-> input, ret |-> beh.value]>>,
          new_state |-> beh.value, cur_state |-> None, cur_handler |-> NoHandler,
          seen_state |-> GetCurrentState(resolved, handler),
          seen_handler |-> GetCurrentHandler(handler)]

\* Dispatch that takes the default branch for None only, not for the default key.
ExecuteHandlerNoneOnly(cs, input, beh) ==
    IF cs # None /\ ~ Hashable(cs)
    THEN Failed("TypeError")
    ELSE IF cs = None
    THEN IF DOMAIN default_state_handler = {}
         THEN Failed("IndexError")
         ELSE Invoked(DefaultKey, DictGet(default_state_handler, DefaultKey).func,
                      "default", input, beh)
    ELSE IF ~ DictHas(state_handlers, cs)
         THEN Failed("NoHandlerAssociation")
         ELSE Invoked(cs, DictGet(state_handlers, cs), "table", input, beh)

\* Dispatch that falls back to the default handler for an unbound state.
ExecuteHandlerFallback(cs, input, beh) ==
    IF cs # None /\ ~ Hashable(cs)
    THEN Failed("TypeError")
    ELSE IF cs = None \/ DictHas(default_state_handler, cs)
    THEN IF DOMAIN default_state_handler = {}
         THEN Failed("IndexError")
         ELSE Invoked(DefaultKey, DictGet(default_state_handler, DefaultKey).func,
                      "default", input, beh)
    ELSE IF ~ DictHas(state_handlers, cs)
         THEN IF DOMAIN default_state_handler = {}
              THEN Failed("NoHandlerAssociation")
              ELSE Invoked(DefaultKey, DictGet(default_state_handler, DefaultKey).func,
                           "default", input, beh)
         ELSE Invoked(cs, DictGet(state_handlers, cs), "table", input, beh)

\* Dispatch that sets _current_state to its argument in the default branch too.
ExecuteHandlerKeepsArgument(cs, input, beh) ==
    IF cs # None /\ ~ Hashable(cs)
    THEN Failed("TypeError")
    ELSE IF cs = None \/ DictHas(default_state_handler, cs)
    THEN IF DOMAIN default_state_handler = {}
         THEN Failed("IndexError")
         ELSE Invoked(cs, DictGet(default_state_handler, DefaultKey).func,
                      "default", input, beh)
    ELSE IF ~ DictHas(state_handlers, cs)
         THEN Failed("NoHandlerAssociation")
         ELSE Invoked(cs, DictGet(state_handlers, cs), "table", input, beh)

\* _StateMachineBase._execute_handler
ExecuteHandler(cs, input, beh) ==
    IF cs # None /\ ~ Hashable(cs)
    THEN Failed("TypeError")
    ELSE IF cs = None \/ DictHas(default_state_handler, cs)
    THEN IF DOMAIN default_state_handler = {}
         THEN Failed("IndexError")
         ELSE Invoked(DefaultKey, DictGet(default_state_handler, DefaultKey).func,
                      "default", input, beh)
    ELSE IF ~ DictHas(state_handlers, cs)
         THEN Failed("NoHandlerAssociation")
         ELSE Invoked(cs, DictGet(state_handlers, cs), "table", input, beh)

\* StateEngine.execute(state, input)
execute(state, input, beh) ==
    \E out \in {ExecuteHandler(state, input, beh)} :
    /\ engine = "StateEngine"
    /\ current_state' = out.cur_state
    /\ current_handler' = out.cur_handler
    /\ last' = ExecCall("execute", state, None, input, None, out,
                        out.raised, out.new_state)
    /\ UNCHANGED <<engine, state_handlers, default_state_handler, store, returned>>
    /\ UNCHANGED <<redis, threads>>

\* engine.current_state, read between calls
read_current_state ==
    LET out == GetCurrentState(current_state, current_handler) IN
    /\ last' = [NoCall EXCEPT !.op = "current_state", !.raised = out.raised,
                              !.result = out.value]
    /\ UNCHANGED <<engine, state_handlers, default_state_handler, current_state,
                   current_handler, store, redis, threads, returned>>

\* engine.current_handler, read between calls
read_current_handler ==
    LET out == GetCurrentHandler(current_handler) IN
    /\ last' = [NoCall EXCEPT !.op = "current_handler", !.raised = out.raised,
                              !.func = out.value]
    /\ UNCHANGED <<engine, state_handlers, default_state_handler, current_state,
                   current_handler, store, redis, threads, returned>>

\* ------------------------------------------------------------- state store
\* _StateStore._get_state(uid), local backend
GetState(uid) == IF DictHas(store, uid) THEN DictGet(store, uid) ELSE None

\* A delete that removes nothing.
DeleteStateNoop(uid) == store

\* _StateStore._delete_state(uid), local backend
DeleteState(uid) == IF DictHas(store, uid) THEN DictDel(store, uid) ELSE store

\* The type test of _StateStore._create_or_update_state
ValidUidType(uid) ==
    ~ (~ IsInstance(uid, {"str", "int", "float"}) \/ IsInstance(uid, {"bool"}))

\* A write that keeps an entry the uid already has.
CreateOrUpdateStateIfAbsent(uid, state) ==
    IF DictHas(store, uid) THEN store ELSE DictSet(store, uid, state)

\* _StateStore._create_or_update_state(uid, state), local backend
CreateOrUpdateState(uid, state) == DictSet(store, uid, state)

\* The test of IntegratedStateEngine.execute on the state a handler returned:
\* new_state is None or new_state == list(default.keys())[0]. (With no default
\* handler the second operand raises IndexError; execute accounts for it.)
IsReset(new_state) ==
    \/ new_state = None
    \/ DOMAIN default_state_handler # {} /\ PyEq(new_state, DefaultKey)

\* A managed execute that deletes the entry only when the handler returned
\* None, and stores a returned default key like any other state.
managed_execute_none_only(uid, input, beh) ==
    \E start \in {IF Hashable(uid) THEN GetState(uid) ELSE None} :
    \E out \in {IF Hashable(uid) THEN ExecuteHandler(start, input, beh)
               ELSE Failed("TypeError")} :
    \E reset \in {IsReset(out.new_state)} :
    \E raised \in {IF out.raised # "" THEN out.raised
                  ELSE IF out.new_state # None /\ ~ ValidUidType(uid)
                  THEN "InvalidUIDType"
                  ELSE ""} :
    /\ engine = "IntegratedStateEngine"
    /\ ~ redis
    /\ current_state' = out.cur_state
    /\ current_handler' = out.cur_handler
    /\ store' = IF raised # "" THEN store
                ELSE IF out.new_state = None THEN DeleteState(uid)
                ELSE CreateOrUpdateState(uid, out.new_state)
    /\ returned' = IF raised # "" THEN returned
                   ELSE [returned EXCEPT ![Canon(uid)] =
                            IF reset THEN None ELSE out.new_state]
    /\ last' = ExecCall("managed_execute", None, uid, input, start, out,
                        raised, None)
    /\ UNCHANGED <<engine, state_handlers, default_state_handler>>
    /\ UNCHANGED <<redis, threads>>

\* A managed execute that writes the default key for a new uid before it
\* dispatches, as a handler in progress.
managed_execute_prewrite(uid, input, beh) ==
    \E start \in {IF Hashable(uid) THEN GetState(uid) ELSE None} :
    \E out \in {IF Hashable(uid) THEN ExecuteHandler(start, input, beh)
               ELSE Failed("TypeError")} :
    \E reset \in {IsReset(out.new_state)} :
    \E raised \in {IF out.raised # "" THEN out.raised
                  ELSE IF out.new_state # None /\ DOMAIN default_state_handler = {}
                  THEN "IndexError"
                  ELSE IF ~ reset /\ ~ ValidUidType(uid) THEN "InvalidUIDType"
                  ELSE ""} :
    /\ engine = "IntegratedStateEngine"
    /\ ~ redis
    /\ current_state' = out.cur_state
    /\ current_handler' = out.cur_handler
    /\ store' = IF raised # ""
                THEN IF Hashable(uid) /\ start = None /\ DOMAIN default_state_handler # {}
                     THEN CreateOrUpdateState(uid, DefaultKey)
                     ELSE store
                ELSE IF reset THEN DeleteState(uid)
                ELSE CreateOrUpdateState(uid, out.new_state)
    /\ returned' = IF raised # "" THEN returned
                   ELSE [returned EXCEPT ![Canon(uid)] =
                            IF reset THEN None ELSE out.new_state]
    /\ last' = ExecCall("managed_execute", None, uid, input, start, out,
                        raised, None)
    /\ UNCHANGED <<engine, state_handlers, default_state_handler>>
    /\ UNCHANGED <<redis, threads>>

\* IntegratedStateEngine.execute(uid, input), local backend
managed_execute(uid, input, beh) ==
    \E start \in {IF Hashable(uid) THEN GetState(uid) ELSE None} :
    \E out \in {IF Hashable(uid) THEN ExecuteHandler(start, input, beh)
               ELSE Failed("TypeError")} :
    \E reset \in {IsReset(out.new_state)} :
    \E raised \in {IF out.raised # "" THEN out.raised
                  ELSE IF out.new_state # None /\ DOMAIN default_state_handler = {}
                  THEN "IndexError"
                  ELSE IF ~ reset /\ ~ ValidUidType(uid) THEN "InvalidUIDType"
                  ELSE ""} :
    /\ engine = "IntegratedStateEngine"
    /\ ~ redis
    /\ current_state' = out.cur_state
    /\ current_handler' = out.cur_handler
    /\ store' = IF raised # "" THEN store
                ELSE IF reset THEN DeleteState(uid)
                ELSE CreateOrUpdateState(uid, out.new_state)
    /\ returned' = IF raised # "" THEN returned
                   ELSE [returned EXCEPT ![Canon(uid)] =
                            IF reset THEN None ELSE out.new_state]
    /\ last' = ExecCall("managed_execute", None, uid, input, start, out,
                        raised, None)
    /\ UNCHANGED <<engine, state_handlers, default_state_handler>>
    /\ UNCHANGED <<redis, threads>>

\* ----------------------------------------------------------- specification
Next ==
    \/ \E state \in Values, default \in BOOLEAN, func \in Handlers :
          state_handler(state, default, func)
    \/ \E state \in Values, input \in Inputs, beh \in Behaviours :
          execute(state, input, beh)
    \/ \E uid \in Uids, input \in Inputs, beh \in Behaviours :
          managed_execute(uid, input, beh)
    \/ read_current_state
    \/ read_current_handler

Spec == Init /\ [][Next]_vars

\* An IntegratedStateEngine with the local store, called with uids of every
\* type and with handlers that return unchecked values.
InitManaged == Init /\ engine = "IntegratedStateEngine"

NextManaged ==
    \/ \E state \in States, default \in BOOLEAN, func \in Handlers :
          state_handler(state, default, func)
    \/ \E uid \in Uids \cup InvalidUids, input \in Inputs, beh \in UncheckedBehaviours :
          managed_execute(uid, input, beh)

SpecManaged == InitManaged /\ [][NextManaged]_vars

\* ------------------------------------------------------------ Redis backend
\* With use_redis=True self._store is redis.Redis(decode_responses=True): the
\* variable store holds the server's keys and values, which are strings.

\* The string Redis keeps for a key or value v: str(v).
RedisStr(v) ==
    CASE v = "1"   -> "'1'"
      [] v = "1.0" -> "'1.0'"
      [] OTHER     -> v

\* The values redis-py encodes; for the others it raises DataError.
RedisEncodable(v) == TypeOf(v) \in {"str", "int", "float"}

\* The string other clients of the server write.
RedisValues == {"a"}

InitRedis ==
    /\ engine = "IntegratedStateEngine"
    /\ state_handlers = EmptyDict
    /\ default_state_handler = EmptyDict
    /\ current_state = None
    /\ current_handler = NoHandler
    /\ store = EmptyDict
    /\ redis = TRUE
    /\ threads = <<>>
    /\ returned = [u \in {Canon(x) : x \in Uids} |-> None]
    /\ last = NoCall

\* Where a command meets a connection failure: when the client takes a
\* connection, when it sends the command, or not at all.
FailPoints == {"none", "connect", "send"}

\* The server's keys after SET key value, after DEL key.
RedisSet(key, value) ==
    [k \in DOMAIN store \cup {key} |-> IF k = key THEN value ELSE store[k]]

RedisDel(key) == [k \in DOMAIN store \ {key} |-> store[k]]

\* execute on the Redis backend is a sequence of blocking commands; the
\* server also serves other clients, whose commands fall between them. The
\* call in progress is threads[1]: the statement it is at, its arguments,
\* the state GET gave and the outcome of _execute_handler. A command either
\* is answered or meets a connection failure (fails) before the server
\* receives it.
RedisCall(uid, input) ==
    [pc |-> "get", uid |-> uid, input |-> input, start |-> None,
     out |-> Failed("")]

\* The call in progress ends: with exception raised ("" for a normal
\* return), met at the failed command fault ("none" when no command failed).
RedisEnd(raised, fault) ==
    /\ threads' = <<>>
    /\ returned' = IF raised # "" THEN returned
                   ELSE [returned EXCEPT ![Canon(threads[1].uid)] =
                            IF IsReset(threads[1].out.new_state) THEN None
                            ELSE threads[1].out.new_state]
    /\ last' = [ExecCall("redis_execute", None, threads[1].uid,
                         threads[1].input, threads[1].start, threads[1].out,
                         raised, None) EXCEPT !.fault = fault]

\* The call in progress goes on at statement pc.
RedisGoto(pc) ==
    /\ threads' = [threads EXCEPT ![1].pc = pc]
    /\ UNCHANGED <<returned, last>>

\* IntegratedStateEngine.execute(uid, input) is called.
r_begin(uid, input) ==
    /\ engine = "IntegratedStateEngine"
    /\ redis
    /\ threads = <<>>
    /\ threads' = <<RedisCall(uid, input)>>
    /\ last' = [NoCall EXCEPT !.op = "redis_begin", !.uid = uid, !.input = input]
    /\ UNCHANGED <<engine, state_handlers, default_state_handler, current_state,
                   current_handler, store, redis, returned>>

\* _StateStore._get_state(uid) on Redis: GET inside the try block.
r_get(fails) ==
    /\ threads # <<>> /\ threads[1].pc = "get"
    /\ IF fails
       THEN RedisEnd("RedisStateStoreError", "get")
       ELSE /\ threads' = [threads EXCEPT
                  ![1].pc = "dispatch",
                  ![1].start = IF RedisStr(threads[1].uid) \in DOMAIN store
                               THEN store[RedisStr(threads[1].uid)] ELSE None]
            /\ UNCHANGED <<returned, last>>
    /\ UNCHANGED <<engine, state_handlers, default_state_handler, current_state,
                   current_handler, store, redis>>

\* _execute_handler on the state GET gave, then the test of execute on the
\* state the handler returned.
r_dispatch(beh) ==
    /\ threads # <<>> /\ threads[1].pc = "dispatch"
    /\ \E out \in {ExecuteHandler(threads[1].start, threads[1].input, beh)} :
       /\ current_state' = out.cur_state
       /\ current_handler' = out.cur_handler
       /\ threads' = [threads EXCEPT
             ![1].out = out,
             ![1].pc = IF out.raised # "" THEN "raise"
                       ELSE IF out.new_state # None /\ DOMAIN default_state_handler = {}
                       THEN "index_error"
                       ELSE IF IsReset(out.new_state) THEN "delete" ELSE "set"]
       /\ UNCHANGED <<engine, state_handlers, default_state_handler, store, redis,
                      returned, last>>

\* The exception of _execute_handler, or the IndexError of
\* list(self._default_state_handler.keys())[0], reaches the caller.
r_raise ==
    /\ threads # <<>> /\ threads[1].pc \in {"raise", "index_error"}
    /\ RedisEnd(IF threads[1].pc = "raise" THEN threads[1].out.raised
                ELSE "IndexError", "none")
    /\ UNCHANGED <<engine, state_handlers, default_state_handler, current_state,
                   current_handler, store, redis>>

\* _StateStore._create_or_update_state(uid, state) on Redis: the type test,
\* then SET inside the try block. redis-py takes a connection, encodes the
\* command, raising DataError for a value it does not encode, and sends it:
\* a failure to connect comes before the DataError, a failure of the
\* sending would come after it.
r_set(fails) ==
    /\ threads # <<>> /\ threads[1].pc = "set"
    /\ IF ~ ValidUidType(threads[1].uid)
       THEN RedisEnd("InvalidUIDType", "none") /\ UNCHANGED store
       ELSE IF fails = "connect"
       THEN RedisEnd("RedisStateStoreError", "set") /\ UNCHANGED store
       ELSE IF ~ RedisEncodable(threads[1].out.new_state)
       THEN RedisEnd("DataError", "none") /\ UNCHANGED store
       ELSE IF fails = "send"
       THEN RedisEnd("RedisStateStoreError", "set") /\ UNCHANGED store
       ELSE /\ store' = RedisSet(RedisStr(threads[1].uid),
                                 RedisStr(threads[1].out.new_state))
            /\ RedisEnd("", "none")
    /\ UNCHANGED <<engine, state_handlers, default_state_handler, current_state,
                   current_handler, redis>>

\* _StateStore._delete_state(uid) on Redis: DELETE inside the try block.
r_delete(fails) ==
    /\ threads # <<>> /\ threads[1].pc = "delete"
    /\ IF fails
       THEN RedisEnd("RedisStateStoreError", "delete") /\ UNCHANGED store
       ELSE /\ store' = RedisDel(RedisStr(threads[1].uid))
            /\ RedisGoto("exists")
    /\ UNCHANGED <<engine, state_handlers, default_state_handler, current_state,
                   current_handler, redis>>

\* `if uid in self._store` of _delete_state: the command EXISTS, after the
\* try block.
r_exists(fails) ==
    /\ threads # <<>> /\ threads[1].pc = "exists"
    /\ IF fails
       THEN RedisEnd("ConnectionError", "exists")
       ELSE IF RedisStr(threads[1].uid) \in DOMAIN store
       THEN RedisGoto("del")
       ELSE RedisEnd("", "none")
    /\ UNCHANGED <<engine, state_handlers, default_state_handler, current_state,
                   current_handler, store, redis>>

\* `del self._store[uid]` of _delete_state: a second DELETE, after the try
\* block.
r_del(fails) ==
    /\ threads # <<>> /\ threads[1].pc = "del"
    /\ IF fails
       THEN RedisEnd("ConnectionError", "del") /\ UNCHANGED store
       ELSE /\ store' = RedisDel(RedisStr(threads[1].uid))
            /\ RedisEnd("", "none")
    /\ UNCHANGED <<engine, state_handlers, default_state_handler, current_state,
                   current_handler, redis>>

\* Another client of the server sets a key (value a string) or deletes it
\* (value None).
other_client(key, value) ==
    /\ redis
    /\ store' = IF value = None THEN RedisDel(key) ELSE RedisSet(key, value)
    /\ store' # store
    /\ UNCHANGED <<engine, state_handlers, default_state_handler, current_state,
                   current_handler, redis, threads, returned, last>>

\* Handlers are registered between calls: the engine is used by one thread
\* here, which is inside execute while a call is in progress.
NextRedis ==
    \/ \E state \in States, default \in BOOLEAN, func \in Handlers :
          threads = <<>> /\ state_handler(state, default, func)
    \/ \E uid \in Uids, input \in Inputs : r_begin(uid, input)
    \/ \E fails \in BOOLEAN : r_get(fails)
    \/ \E beh \in UncheckedBehaviours : r_dispatch(beh)
    \/ r_raise
    \/ \E fails \in FailPoints : r_set(fails)
    \/ \E fails \in BOOLEAN : r_delete(fails)
    \/ \E fails \in BOOLEAN : r_exists(fails)
    \/ \E fails \in BOOLEAN : r_del(fails)
    \/ \E uid \in Uids, value \in RedisValues \cup {None} :
          other_client(RedisStr(uid), value)

SpecRedis == InitRedis /\ [][NextRedis]_vars


\* -------------------------------------------------------- concurrent calls
\* Two threads call IntegratedStateEngine.execute on one instance with the
\* local store. A thread may be preempted between any two statements of
\* execute and of _execute_handler; each statement is one step. The handlers
\* were registered before the threads start: 'a' is the default state with
\* handler 1, state 1 has handler 2.
Threads == {1, 2}

\* A thread's call: where it is, its uid, the state it read from the store,
\* the branch _execute_handler took, the handler its lookup found, the
\* handler the call invoked, what it returned, the exception that ended the call and whether the call changed
\* the store. overlap: when the call read the store, the other thread's
\* present call for the same uid had read it and not yet written.
IdleThread ==
    [pc |-> "idle", uid |-> None, start |-> None, branch |-> "",
     found |-> NoHandler, called |-> NoHandler, new_state |-> None, raised |-> "", wrote |-> FALSE,
     overlap |-> FALSE]

\* A call is between its read of the store and its write.
BetweenReadAndWrite(th) ==
    th.pc \in {"set_state", "lookup_handler", "set_handler", "call",
               "clear_state", "clear_handler", "write", "del"}

InitConcurrent ==
    /\ engine = "IntegratedStateEngine"
    /\ state_handlers = DictSet(EmptyDict, "1", 2)
    /\ default_state_handler = DictSet(EmptyDict, "a", [key |-> "a", func |-> 1])
    /\ current_state = None
    /\ current_handler = NoHandler
    /\ store = EmptyDict
    /\ redis = FALSE
    /\ threads = [t \in Threads |-> IdleThread]
    /\ returned = [u \in {Canon(x) : x \in Uids} |-> None]
    /\ last = NoCall

\* The call of thread t ends with exception exc.
ThreadRaise(t, exc) ==
    threads' = [threads EXCEPT ![t].pc = "done", ![t].raised = exc]

\* Thread t calls execute(uid, input).
t_begin(t, uid) ==
    /\ threads[t].pc \in {"idle", "done"}
    /\ threads' = [o \in Threads |->
                      IF o = t THEN [IdleThread EXCEPT !.pc = "get", !.uid = uid]
                      ELSE [threads[o] EXCEPT !.overlap = FALSE]]
    /\ UNCHANGED <<engine, state_handlers, default_state_handler, current_state,
                   current_handler, store, redis, returned, last>>

\* current_state = _StateStore._get_state(self, uid)
t_get(t) ==
    /\ threads[t].pc = "get"
    /\ threads' = [threads EXCEPT
          ![t].pc = "set_state",
          ![t].start = GetState(threads[t].uid),
          ![t].overlap = \E o \in Threads \ {t} :
                            /\ BetweenReadAndWrite(threads[o])
                            /\ threads[o].uid = threads[t].uid]
    /\ UNCHANGED <<engine, state_handlers, default_state_handler, current_state,
                   current_handler, store, redis, returned, last>>

\* _execute_handler up to the assignment of self._current_state
t_set_state(t) ==
    LET cs == threads[t].start IN
    /\ threads[t].pc = "set_state"
    /\ IF cs # None /\ ~ Hashable(cs)
       THEN ThreadRaise(t, "TypeError") /\ UNCHANGED current_state
       ELSE IF cs = None \/ DictHas(default_state_handler, cs)
       THEN IF DOMAIN default_state_handler = {}
            THEN ThreadRaise(t, "IndexError") /\ UNCHANGED current_state
            ELSE /\ current_state' = DefaultKey
                 /\ threads' = [threads EXCEPT ![t].pc = "lookup_handler",
                                               ![t].branch = "default"]
       ELSE IF ~ DictHas(state_handlers, cs)
            THEN ThreadRaise(t, "NoHandlerAssociation") /\ UNCHANGED current_state
            ELSE /\ current_state' = cs
                 /\ threads' = [threads EXCEPT ![t].pc = "lookup_handler",
                                               ![t].branch = "table"]
    /\ UNCHANGED <<engine, state_handlers, default_state_handler,
                   current_handler, store, redis, returned, last>>

\* The right-hand side of the assignment of self._current_handler: the
\* default branch reads self._current_state, as the other thread may have
\* left it, and subscripts the default dict with it; the other branch
\* subscripts the table with the argument.
t_lookup_handler(t) ==
    /\ threads[t].pc = "lookup_handler"
    /\ IF threads[t].branch = "default"
       THEN IF current_state = None \/ ~ DictHas(default_state_handler, current_state)
            THEN ThreadRaise(t, "KeyError")
            ELSE threads' = [threads EXCEPT
                    ![t].pc = "set_handler",
                    ![t].found = DictGet(default_state_handler, current_state).func]
       ELSE threads' = [threads EXCEPT
               ![t].pc = "set_handler",
               ![t].found = DictGet(state_handlers, threads[t].start)]
    /\ UNCHANGED <<engine, state_handlers, default_state_handler, current_state,
                   current_handler, store, redis, returned, last>>

\* The store into self._current_handler of the handler the lookup found; the
\* other thread may have run between the lookup and this store.
t_set_handler(t) ==
    /\ threads[t].pc = "set_handler"
    /\ current_handler' = threads[t].found
    /\ threads' = [threads EXCEPT ![t].pc = "call"]
    /\ UNCHANGED <<engine, state_handlers, default_state_handler,
                   current_state, store, redis, returned, last>>

\* new_state = self._current_handler(input): the handler is the one the field
\* holds now; None is not callable.
t_call(t, input, beh) ==
    /\ threads[t].pc = "call"
    /\ IF current_handler = NoHandler
       THEN ThreadRaise(t, "TypeError")
       ELSE IF beh.raises
       THEN threads' = [threads EXCEPT ![t].pc = "done",
                                       ![t].called = current_handler,
                                       ![t].raised = "HandlerError"]
       ELSE threads' = [threads EXCEPT ![t].pc = "clear_state",
                                       ![t].called = current_handler,
                                       ![t].new_state = beh.value]
    /\ UNCHANGED <<engine, state_handlers, default_state_handler, current_state,
                   current_handler, store, redis, returned, last>>

\* self._current_state = None
t_clear_state(t) ==
    /\ threads[t].pc = "clear_state"
    /\ current_state' = None
    /\ threads' = [threads EXCEPT ![t].pc = "clear_handler"]
    /\ UNCHANGED <<engine, state_handlers, default_state_handler,
                   current_handler, store, redis, returned, last>>

\* self._current_handler = None
t_clear_handler(t) ==
    /\ threads[t].pc = "clear_handler"
    /\ current_handler' = NoHandler
    /\ threads' = [threads EXCEPT ![t].pc = "write"]
    /\ UNCHANGED <<engine, state_handlers, default_state_handler,
                   current_state, store, redis, returned, last>>

\* The test on new_state, then _create_or_update_state or the membership
\* test of _delete_state.
t_write(t) ==
    LET uid == threads[t].uid
        new_state == threads[t].new_state
    IN
    /\ threads[t].pc = "write"
    /\ IF new_state # None /\ DOMAIN default_state_handler = {}
       THEN ThreadRaise(t, "IndexError") /\ UNCHANGED <<store, returned>>
       ELSE IF IsReset(new_state)
       THEN /\ threads' = [threads EXCEPT ![t].pc =
                              IF DictHas(store, uid) THEN "del" ELSE "done"]
            /\ UNCHANGED <<store, returned>>
       ELSE IF ~ ValidUidType(uid)
       THEN ThreadRaise(t, "InvalidUIDType") /\ UNCHANGED <<store, returned>>
       ELSE /\ store' = CreateOrUpdateState(uid, new_state)
            /\ returned' = [returned EXCEPT ![Canon(uid)] = new_state]
            /\ threads' = [threads EXCEPT ![t].pc = "done", ![t].wrote = TRUE]
    /\ UNCHANGED <<engine, state_handlers, default_state_handler, current_state,
                   current_handler, redis, last>>

\* del self._store[uid] of _delete_state, after its membership test
t_del(t) ==
    LET uid == threads[t].uid IN
    /\ threads[t].pc = "del"
    /\ IF DictHas(store, uid)
       THEN /\ store' = DictDel(store, uid)
            /\ returned' = [returned EXCEPT ![Canon(uid)] = None]
            /\ threads' = [threads EXCEPT ![t].pc = "done", ![t].wrote = TRUE]
       ELSE ThreadRaise(t, "KeyError") /\ UNCHANGED <<store, returned>>
    /\ UNCHANGED <<engine, state_handlers, default_state_handler, current_state,
                   current_handler, redis, last>>

NextConcurrent ==
    \/ \E t \in Threads, uid \in Uids : t_begin(t, uid)
    \/ \E t \in Threads : t_get(t)
    \/ \E t \in Threads : t_set_state(t)
    \/ \E t \in Threads : t_lookup_handler(t)
    \/ \E t \in Threads : t_set_handler(t)
    \/ \E t \in Threads, input \in Inputs, beh \in UncheckedBehaviours :
          t_call(t, input, beh)
    \/ \E t \in Threads : t_clear_state(t)
    \/ \E t \in Threads : t_clear_handler(t)
    \/ \E t \in Threads : t_write(t)
    \/ \E t \in Threads : t_del(t)

SpecConcurrent == InitConcurrent /\ [][NextConcurrent]_vars


\* ------------------------------------------------------------ nested calls
\* One thread; a handler may call execute on the engine it is running on
\* (StateEngine, handlers registered beforehand: 'a' is the default state with
\* handler 1, state 1 has handler 2). threads is the stack of the calls in
\* progress, the innermost last.

\* The state arguments of the calls: None, 'a', 1 and the unbound ().
NestedStates == {"None", "a", "1", "()"}

InitNested ==
    /\ engine = "StateEngine"
    /\ state_handlers = DictSet(EmptyDict, "1", 2)
    /\ default_state_handler = DictSet(EmptyDict, "a", [key |-> "a", func |-> 1])
    /\ current_state = None
    /\ current_handler = NoHandler
    /\ store = EmptyDict
    /\ redis = FALSE
    /\ threads = <<>>
    /\ returned = [u \in {Canon(x) : x \in Uids} |-> None]
    /\ last = NoCall

\* A call whose handler is running: its state argument, the state and the
\* handler _execute_handler resolved, whether a call made by the handler has
\* returned and the state it returned, and what the handler's latest read of
\* current_state and of current_handler gave (read is FALSE when it has not
\* read since).
Frame(state, resolved, handler) ==
    [state |-> state, resolved |-> resolved, handler |-> handler,
     nested |-> FALSE, got |-> None, read |-> FALSE,
     seen_state |-> NotSeenState, seen_handler |-> NotSeenHandler]

\* The frame is entered: lines 70-81 of _execute_handler have set the context
\* and line 84 has called the handler.
Enter(state, resolved, handler) ==
    /\ current_state' = resolved
    /\ current_handler' = handler
    /\ threads' = Append(threads, Frame(state, resolved, handler))

\* An exception leaves every call in progress (no handler catches it); the
\* context fields stay as they are.
Unwind ==
    /\ threads' = <<>>
    /\ UNCHANGED <<current_state, current_handler>>

\* execute(state, input), called from outside or by the running handler, up
\* to the handler call.
n_call(state) ==
    /\ Len(threads) < MaxDepth
    /\ IF ~ Hashable(state)
       THEN Unwind
       ELSE IF state = None \/ DictHas(default_state_handler, state)
       THEN IF DOMAIN default_state_handler = {}
            THEN Unwind
            ELSE Enter(state, DefaultKey,
                       DictGet(default_state_handler, DefaultKey).func)
       ELSE IF ~ DictHas(state_handlers, state)
            THEN Unwind
            ELSE Enter(state, state, DictGet(state_handlers, state))
    /\ UNCHANGED <<engine, state_handlers, default_state_handler, store, redis,
                   returned, last>>

\* The running handler reads engine.current_state and engine.current_handler.
n_read ==
    /\ threads # <<>>
    /\ threads' = [threads EXCEPT
                      ![Len(threads)].read = TRUE,
                      ![Len(threads)].seen_state =
                          GetCurrentState(current_state, current_handler),
                      ![Len(threads)].seen_handler =
                          GetCurrentHandler(current_handler)]
    /\ UNCHANGED <<engine, state_handlers, default_state_handler, current_state,
                   current_handler, store, redis, returned, last>>

\* The running handler returns or raises: lines 84-91 of _execute_handler.
\* The caller, when it is a handler, goes on after its nested call.
n_return(beh) ==
    /\ threads # <<>>
    /\ IF beh.raises
       THEN Unwind
       ELSE /\ current_state' = None
            /\ current_handler' = NoHandler
            /\ threads' =
                  IF Len(threads) = 1 THEN <<>>
                  ELSE [SubSeq(threads, 1, Len(threads) - 1) EXCEPT
                           ![Len(threads) - 1].nested = TRUE,
                           ![Len(threads) - 1].got = beh.value,
                           ![Len(threads) - 1].read = FALSE,
                           ![Len(threads) - 1].seen_state = NotSeenState,
                           ![Len(threads) - 1].seen_handler = NotSeenHandler]
    /\ UNCHANGED <<engine, state_handlers, default_state_handler, store, redis,
                   returned, last>>

NextNested ==
    \/ \E state \in NestedStates : n_call(state)
    \/ n_read
    \/ \E beh \in Behaviours : n_return(beh)

SpecNested == InitNested /\ [][NextNested]_vars


\* --------------------------------------------- older variant, stateengine.py
\* src/stateengine.py registers handlers as _stateengine.py does and keeps no
\* dispatch context; its IntegratedStateEngine has a local dict store only.

\* The values execute is given as its optional state argument.
Seeds == {"None", "a"}

OldInit ==
    /\ engine = "stateengine.IntegratedStateEngine"
    /\ state_handlers = EmptyDict
    /\ default_state_handler = EmptyDict
    /\ current_state = None
    /\ current_handler = NoHandler
    /\ store = EmptyDict
    /\ redis = FALSE
    /\ threads = <<>>
    /\ returned = [u \in {Canon(x) : x \in Uids} |-> None]
    /\ last = NoCall

\* The handler call of the older _execute_handler: no context is set.
OldInvoked(handler, via, input, beh) ==
    [raised |-> IF beh.raises THEN "HandlerError" ELSE "", via |-> via,
     calls |-> <<[handler |-> handler, input |-> input,
                  ret |-> IF beh.raises THEN None ELSE beh.value]>>,
     new_state |-> IF beh.raises THEN None ELSE beh.value,
     cur_state |-> current_state, cur_handler |-> current_handler,
     seen_state |-> NotSeenState, seen_handler |-> NotSeenHandler]

\* stateengine._StateMachineBase._execute_handler
OldExecuteHandler(cs, input, beh) ==
    IF cs # None /\ ~ Hashable(cs)
    THEN Failed("TypeError")
    ELSE IF cs = None \/ DictHas(default_state_handler, cs)
    THEN IF DOMAIN default_state_handler = {}
         THEN Failed("IndexError")
         ELSE OldInvoked(DictGet(default_state_handler, DefaultKey).func,
                         "default", input, beh)
    ELSE IF ~ DictHas(state_handlers, cs)
         THEN Failed("NoHandlerAssociation")
         ELSE OldInvoked(DictGet(state_handlers, cs), "table", input, beh)

\* The part of the older execute before dispatch: the seed state is written
\* for uid, or the stored state is read and, when there is none, the default
\* key is written for uid. Gives the exception raised, the state to dispatch
\* on and the store so far.
OldBeforeDispatch(uid, state) ==
    IF state # None
    THEN IF ~ ValidUidType(uid)
         THEN [raised |-> "InvalidUIDType", cs |-> state, store |-> store]
         ELSE [raised |-> "", cs |-> state, store |-> DictSet(store, uid, state)]
    ELSE IF ~ Hashable(uid)
    THEN [raised |-> "TypeError", cs |-> None, store |-> store]
    ELSE IF GetState(uid) # None
    THEN [raised |-> "", cs |-> GetState(uid), store |-> store]
    ELSE IF DOMAIN default_state_handler = {}
    THEN [raised |-> "IndexError", cs |-> None, store |-> store]
    ELSE IF ~ ValidUidType(uid)
    THEN [raised |-> "InvalidUIDType", cs |-> None, store |-> store]
    ELSE [raised |-> "", cs |-> None, store |-> DictSet(store, uid, DefaultKey)]

\* The part of the older execute after dispatch, on the store pre left by the
\* first part: del self._store[uid] when the handler returned None, a write
\* of the returned state otherwise.
OldAfterDispatch(uid, new_state, pre) ==
    IF new_state = None
    THEN IF DictHas(pre, uid)
         THEN [raised |-> "", store |-> DictDel(pre, uid)]
         ELSE [raised |-> "KeyError", store |-> pre]
    ELSE IF ~ ValidUidType(uid)
    THEN [raised |-> "InvalidUIDType", store |-> pre]
    ELSE [raised |-> "", store |-> DictSet(pre, uid, new_state)]

\* stateengine.IntegratedStateEngine.execute(uid, state, input)
old_execute(uid, state, input, beh) ==
    \E pre \in {OldBeforeDispatch(uid, state)} :
    \E out \in {IF pre.raised # "" THEN Failed(pre.raised)
               ELSE OldExecuteHandler(pre.cs, input, beh)} :
    \E post \in {IF out.raised # "" THEN [raised |-> out.raised, store |-> pre.store]
                ELSE OldAfterDispatch(uid, out.new_state, pre.store)} :
    /\ engine = "stateengine.IntegratedStateEngine"
    /\ store' = post.store
    /\ returned' = IF post.raised # "" THEN returned
                   ELSE [returned EXCEPT ![Canon(uid)] = out.new_state]
    /\ last' = ExecCall("old_execute", state, uid, input, pre.cs, out,
                        post.raised, None)
    /\ UNCHANGED <<engine, state_handlers, default_state_handler>>
    /\ UNCHANGED <<current_state, current_handler, redis, threads>>

OldNext ==
    \/ \E state \in States, default \in BOOLEAN, func \in Handlers :
          state_handler(state, default, func)
    \/ \E uid \in Uids \cup InvalidUids, state \in Seeds, input \in Inputs,
          beh \in Behaviours :
          old_execute(uid, state, input, beh)

SpecOld == OldInit /\ [][OldNext]_vars


\* ------------------------------------------------------------------ claims
\* The state types the claims call valid: str, int, float (a bool is none).
ScalarState(v) == TypeOf(v) \in {"str", "int", "float"}

IsExecute(l) == l.op \in {"execute", "managed_execute"}

\* The state a call dispatched on: the argument of execute, the stored state
\* read by a managed execute.
Dispatched(l) == IF l.op = "execute" THEN l.state ELSE l.start

HasDefault == DOMAIN default_state_handler # {}

DefaultFunc == DictGet(default_state_handler, DefaultKey).func

\* C1: once a non-default handler h is bound to a str/int/float state s,
\* execute(s, input) calls exactly h, once, with that input, and returns
\* what h returned.
C1_RegisteredHandlerRuns ==
    (last.op = "execute" /\ ScalarState(last.state)
        /\ DictHas(state_handlers, last.state))
    => /\ Len(last.calls) = 1
       /\ last.calls[1].handler = DictGet(state_handlers, last.state)
       /\ last.calls[1].input = last.input
       /\ (last.raised = "" => last.result = last.calls[1].ret)

\* C2: with a default handler registered, the default handler runs exactly
\* when the dispatched state is None or equals the default key; any other
\* state runs the handler bound to it in the handler table, or fails with
\* NoHandlerAssociation when none is bound.
C2_ResolutionOrder ==
    LET s == Dispatched(last)
        toDefault == s = None \/ (HasDefault /\ PyEq(s, DefaultKey))
        ranDefault == /\ last.via = "default"
                      /\ Len(last.calls) = 1
                      /\ last.calls[1].handler = DefaultFunc
    IN (IsExecute(last) /\ Hashable(s))
       => /\ HasDefault => (ranDefault <=> toDefault)
          /\ ~ HasDefault => last.via # "default"
          /\ ~ toDefault =>
                IF DictHas(state_handlers, s)
                THEN /\ last.via = "table"
                     /\ Len(last.calls) = 1
                     /\ last.calls[1].handler = DictGet(state_handlers, s)
                     /\ last.calls[1].input = last.input
                ELSE /\ last.raised = "NoHandlerAssociation"
                     /\ last.calls = <<>>

C2_Witness ==
    /\ last.op = "execute"
    /\ last.state # None
    /\ last.via = "default"
    /\ last.state # DefaultKey
    /\ DictHas(state_handlers, last.state)
    /\ DictGet(state_handlers, last.state) # last.calls[1].handler

\* C3: a second non-default registration for a state that already has a
\* non-default handler raises StateHandlerClash and changes neither table.
C3_StateHandlerClash ==
    (/\ last.op = "state_handler"
     /\ ~ last.default
     /\ ScalarState(last.state)
     /\ DictHas(last.before.state_handlers, last.state))
    => /\ last.raised = "StateHandlerClash"
       /\ state_handlers = last.before.state_handlers
       /\ default_state_handler = last.before.default_state_handler

C3_Witness ==
    /\ last.op = "state_handler"
    /\ last.raised = "StateHandlerClash"
    /\ DictGet(state_handlers, last.state) # last.func

\* C4: there is never more than one default handler; once one is set it
\* never changes, and a later default registration with a str/int/float
\* state raises DefaultStateHandlerClash.
C4_SingleDefault ==
    /\ Cardinality(DOMAIN default_state_handler) <= 1
    /\ DOMAIN last.before.default_state_handler # {}
       => default_state_handler = last.before.default_state_handler
    /\ (/\ last.op = "state_handler"
        /\ last.default
        /\ ScalarState(last.state)
        /\ DOMAIN last.before.default_state_handler # {})
       => last.raised = "DefaultStateHandlerClash"

C4_Witness ==
    /\ last.op = "state_handler"
    /\ last.raised = "DefaultStateHandlerClash"
    /\ ~ PyEq(last.state, DefaultKey)
    /\ DefaultFunc # last.func

\* C5: registering with a state that is not a str, int or float (a bool,
\* None, a tuple, a list), default or not, raises InvalidStateType and
\* changes neither the handler table nor the default slot.
C5_InvalidStateType ==
    (last.op = "state_handler" /\ ~ ScalarState(last.state))
    => /\ last.raised = "InvalidStateType"
       /\ state_handlers = last.before.state_handlers
       /\ default_state_handler = last.before.default_state_handler

C5_Witness ==
    /\ last.op = "state_handler"
    /\ last.state = "True"
    /\ last.default
    /\ last.raised = "InvalidStateType"
    /\ ~ HasDefault
    /\ ~ DictHas(state_handlers, "1")

\* C6: execute with a state that is a bool, or is neither None nor a
\* str/int/float, raises InvalidStateType and calls no handler.
C6_ExecuteRejectsInvalidState ==
    (last.op = "execute" /\ last.state # None /\ ~ ScalarState(last.state))
    => /\ last.raised = "InvalidStateType"
       /\ last.calls = <<>>

\* The context fields and the store are as the last call found them.
ContextAndStoreUntouched ==
    /\ current_state = last.before.current_state
    /\ current_handler = last.before.current_handler
    /\ store = last.before.store

\* C7: with no default handler registered, an execute that dispatches on
\* None (unmanaged with state None, managed for a uid with no stored state)
\* raises NoDefaultState, calls no handler and leaves the context and the
\* store unchanged.
C7_NoDefaultState ==
    (IsExecute(last) /\ Dispatched(last) = None /\ ~ HasDefault)
    => /\ last.raised = "NoDefaultState"
       /\ last.calls = <<>>
       /\ ContextAndStoreUntouched

\* C8: an execute that dispatches on a state other than None that is neither
\* the default key nor bound in the handler table raises
\* NoHandlerAssociation, calls no handler, and leaves the context and the
\* store unchanged.
C8_NoHandlerAssociation ==
    (/\ IsExecute(last)
     /\ Dispatched(last) # None
     /\ Hashable(Dispatched(last))
     /\ ~ DictHas(default_state_handler, Dispatched(last))
     /\ ~ DictHas(state_handlers, Dispatched(last)))
    => /\ last.raised = "NoHandlerAssociation"
       /\ last.calls = <<>>
       /\ ContextAndStoreUntouched

C8_Witness ==
    /\ last.op = "managed_execute"
    /\ last.start # None
    /\ last.raised = "NoHandlerAssociation"
    /\ HasDefault
    /\ DOMAIN state_handlers # {}
    /\ DictHas(store, last.uid)

\* C9: after a managed execute for uid completed with its handler returning
\* a state x that is neither None nor the default key, the next managed
\* execute for uid dispatches on x: it calls the handler bound to x, or
\* fails with NoHandlerAssociation when none is bound. On the Redis backend:
\* for a call whose GET was answered with what that SET had stored for uid
\* (no other client replaced it).
C9_ManagedRoundTrip ==
    LET x == last.before.returned[Canon(last.uid)] IN
    (/\ last.op = "redis_execute"
     /\ x # None
     /\ last.start = RedisStr(x))
    => /\ last.start = x
       /\ IF DictHas(state_handlers, x)
          THEN /\ Len(last.calls) = 1
               /\ last.calls[1].handler = DictGet(state_handlers, x)
               /\ last.calls[1].input = last.input
          ELSE last.raised = "NoHandlerAssociation"

\* C10: after a managed execute whose handler returned None or a value equal
\* to the default key, the store has no entry for the uid.
C10_ManagedReset ==
    (/\ last.op = "managed_execute"
     /\ last.raised = ""
     /\ (last.new_state = None \/ (HasDefault /\ PyEq(last.new_state, DefaultKey))))
    => ~ DictHas(store, last.uid)

C10_Witness ==
    /\ last.op = "managed_execute"
    /\ last.raised = ""
    /\ last.start # None
    /\ last.new_state # None
    /\ PyEq(last.new_state, DefaultKey)
    /\ ~ DictHas(store, last.uid)

\* C13: after any execute call ends, by a return or by an exception, the
\* execution context is empty: _current_state and _current_handler are None.
C13_ContextClearedAfterExecute ==
    IsExecute(last)
    => /\ current_state = None
       /\ current_handler = NoHandler

IsRead(l) == l.op \in {"current_state", "current_handler"}

\* C14: reading current_state or current_handler while no execute call is in
\* progress raises OutsideHandlerContext, whatever calls were made before.
C14_ReadOutsideHandlerRaises ==
    IsRead(last) => last.raised = "OutsideHandlerContext"

\* C15: while the handler called by an execute runs, current_state gives the
\* resolved state (the default key when the call dispatched on None or on the
\* default key, the dispatched state itself otherwise) and current_handler
\* gives the handler that is running.
C15_ContextInsideHandler ==
    LET s == Dispatched(last)
        resolved == IF HasDefault /\ (s = None \/ PyEq(s, DefaultKey))
                    THEN DefaultKey ELSE s
    IN (IsExecute(last) /\ Len(last.calls) = 1)
       => /\ last.seen_state = [raised |-> "", value |-> resolved]
          /\ last.seen_handler = [raised |-> "", value |-> last.calls[1].handler]

C15_Witness ==
    /\ IsExecute(last)
    /\ Len(last.calls) = 1
    /\ Dispatched(last) = "1"
    /\ last.seen_state.value = "1.0"
    /\ DictHas(state_handlers, "1")

\* C11: with the local store, no entry holds None or the default key, and
\* the store holds exactly the uids whose last completed managed execute
\* returned a state that is neither None nor the default key, each with that
\* state.
C11_StoreInvariant ==
    /\ \A k \in DOMAIN store :
          /\ store[k] # None
          /\ HasDefault => ~ PyEq(store[k], DefaultKey)
    /\ \A k \in DOMAIN returned :
          /\ k \in DOMAIN store <=> returned[k] # None
          /\ k \in DOMAIN store => store[k] = returned[k]

C11_Witness ==
    /\ last.op = "managed_execute"
    /\ last.raised = ""
    /\ DictHas(last.before.store, last.uid)
    /\ ~ DictHas(store, last.uid)
    /\ DOMAIN store # {}

\* The uid types the claims call valid: str, int, float (a bool is none).
ScalarUid(v) == TypeOf(v) \in {"str", "int", "float"}

\* C12: a managed execute with a uid that is a bool or not a str/int/float
\* raises InvalidUIDType before any handler is called, whatever the handler
\* would return.
C12_InvalidUidRejectedUpFront ==
    (last.op = "managed_execute" /\ ~ ScalarUid(last.uid))
    => /\ last.raised = "InvalidUIDType"
       /\ last.calls = <<>>

\* C19: a managed execute whose handler raises, or whose dispatch fails
\* before a handler is called, leaves the local store as it found it.
C19_FailedExecuteKeepsStore ==
    (/\ last.op = "managed_execute"
     /\ \/ last.raised = "HandlerError"
        \/ last.raised # "" /\ last.calls = <<>>)
    => store = last.before.store

C19_Witness ==
    /\ last.op = "managed_execute"
    /\ last.raised = "HandlerError"
    /\ last.start = None
    /\ DOMAIN store # {}

\* C20: a state returned by a handler that is neither None nor the default
\* key is stored for the uid as it is, bound or not; and while a stored state
\* has no handler, a managed execute for its uid raises NoHandlerAssociation,
\* calls no handler and leaves the store unchanged.
C20_UnboundStateSticks ==
    /\ (/\ last.op = "managed_execute"
        /\ last.raised = ""
        /\ last.new_state # None
        /\ ~ PyEq(last.new_state, DefaultKey))
       => (DictHas(store, last.uid) /\ DictGet(store, last.uid) = last.new_state)
    /\ (/\ last.op = "managed_execute"
        /\ Hashable(last.uid)
        /\ DictHas(last.before.store, last.uid)
        /\ Hashable(DictGet(last.before.store, last.uid))
        /\ ~ DictHas(default_state_handler, DictGet(last.before.store, last.uid))
        /\ ~ DictHas(state_handlers, DictGet(last.before.store, last.uid)))
       => /\ last.raised = "NoHandlerAssociation"
          /\ last.calls = <<>>
          /\ store = last.before.store

C20_Witness ==
    /\ last.op = "managed_execute"
    /\ last.raised = "NoHandlerAssociation"
    /\ last.start # None
    /\ last.start = last.before.returned[Canon(last.uid)]
    /\ DictGet(store, last.uid) = last.start
    /\ HasDefault

\* C18: in the older variant, after a managed execute without a seed state
\* that returns normally, the store holds an entry for the uid exactly when
\* the state the handler returned is neither None nor the default key.
C18_OldStoreEntryIffNonDefault ==
    (/\ last.op = "old_execute"
     /\ last.state = None
     /\ last.raised = "")
    => (DictHas(store, last.uid)
        <=> (/\ last.new_state # None
             /\ ~ (HasDefault /\ PyEq(last.new_state, DefaultKey))))

\* C16: on the Redis backend, a connection failure at any command of a
\* managed execute, GET, SET, DELETE or another the store methods issue,
\* reaches the caller as RedisStateStoreError.
C16_RedisFailureNormalized ==
    (last.op = "redis_execute" /\ last.fault # "none")
    => last.raised = "RedisStateStoreError"

\* The state a completed call of a thread left for its uid: None when it
\* deleted the entry.
Written(th) == IF IsReset(th.new_state) THEN None ELSE th.new_state

\* C17: with two threads, the store's entry for a uid is always the one the
\* most recent store write for that uid left (last write wins), whatever the
\* writing call had read; the witness is a lost update: two calls for one uid
\* that read the same state, the second reading before the first wrote, and
\* both wrote, the store keeping the second write only.
C17_LastWriteWins ==
    \A u \in Uids :
       /\ DictHas(store, u) <=> returned[Canon(u)] # None
       /\ DictHas(store, u) => DictGet(store, u) = returned[Canon(u)]

C17_Witness ==
    \E t \in Threads, u \in Threads :
       /\ t # u
       /\ threads[t].pc = "done" /\ threads[u].pc = "done"
       /\ threads[t].raised = "" /\ threads[u].raised = ""
       /\ threads[t].wrote /\ threads[u].wrote
       /\ threads[t].uid = threads[u].uid
       /\ threads[t].start = threads[u].start
       /\ threads[u].overlap
       /\ Written(threads[t]) # threads[t].start
       /\ Written(threads[t]) # Written(threads[u])
       /\ GetState(threads[u].uid) = Written(threads[u])

\* C21: no state is bound both as the default handler's key and in the
\* handler table.
C21_NoStateInBothTables ==
    \A k \in DOMAIN default_state_handler : k \notin DOMAIN state_handlers

\* The handler _execute_handler resolved for the state a thread's call
\* started from.
ResolvedHandler(th) ==
    IF th.branch = "default"
    THEN DictGet(default_state_handler, DefaultKey).func
    ELSE DictGet(state_handlers, th.start)

\* A call is past the handler invocation of _execute_handler.
PastCall(th) ==
    /\ th.branch # ""
    /\ th.pc \in {"clear_state", "clear_handler", "write", "del", "done"}

\* C22: with two interleaved calls, each call that resolved a handler invokes
\* that handler, the one bound to the state it started from.
C22_CallRunsOwnHandler ==
    \A t \in Threads :
       PastCall(threads[t]) => threads[t].called = ResolvedHandler(threads[t])

\* C23: a handler that has called execute on its own engine and reads
\* current_state and current_handler after that call returned gets its own
\* resolved state and itself, and no OutsideHandlerContext.
C23_ContextSurvivesNestedCall ==
    \A i \in 1..Len(threads) :
       (threads[i].nested /\ threads[i].read)
       => /\ threads[i].seen_state = [raised |-> "", value |-> threads[i].resolved]
          /\ threads[i].seen_handler = [raised |-> "", value |-> threads[i].handler]

====
